---- MODULE Spec2Model ----
(***************************************************************************)
(* A model of the dami tabular engine: the typed column (Series), the      *)
(* column group (Block) and the heterogeneous column store (BlockManager)  *)
(* behind the DataFrame facade.                                            *)
(*                                                                         *)
(* A Rust value of type Series<T> is a record that carries its element     *)
(* type T in the field ty; a Block<T> likewise.  A HashMap is a function   *)
(* whose DOMAIN is the set of keys.  A call that returns Result or Option  *)
(* yields its variant in the field ret; a call that unwinds (unwrap on     *)
(* None or Err, a failed assert, an index out of bounds) yields            *)
(* ret = "panic", after which the process takes no further step.           *)
(***************************************************************************)
EXTENDS Integers, Sequences, FiniteSets, TLC

VARIABLES t1, t2, out, call, workers

vars == <<t1, t2, out, call, workers>>

(* Bounds of the model. *)
MaxCols == 2
MaxLen == 2

(***************************************************************************)
(* Small helpers for Vec and HashMap.                                      *)
(***************************************************************************)
Contains(seq, x) == \E i \in 1..Len(seq) : seq[i] = x

Position(seq, x) ==
    IF Contains(seq, x)
    THEN CHOOSE i \in 1..Len(seq) : seq[i] = x /\ \A j \in 1..(i - 1) : seq[j] # x
    ELSE 0

EmptyMap == [k \in {} |-> k]

MapInsert(m, k, v) == (k :> v) @@ m

MapRemove(m, k) == [x \in (DOMAIN m) \ {k} |-> m[x]]

Min(a, b) == IF a < b THEN a ELSE b

(***************************************************************************)
(* format!("{}", n) for an unsigned n: its decimal digits.                 *)
(***************************************************************************)
Digits == <<"0", "1", "2", "3", "4", "5", "6", "7", "8", "9">>

RECURSIVE format(_)
format(n) ==
    IF n < 10 THEN Digits[n + 1] ELSE format(n \div 10) \o Digits[(n % 10) + 1]

(***************************************************************************)
(* enums.rs: the type tags, and series.rs get_type, which tests the        *)
(* concrete type in a fixed order.  TypeOfTag is the element type that     *)
(* get_appropriate_block downcasts to under each tag.                      *)
(***************************************************************************)
DataTypes == {"I32", "I64", "F32", "F64", "STRING", "STR", "BOOL", "OBJECT"}

get_type(ty) ==
    IF ty = "f64" THEN "F64"
    ELSE IF ty = "f32" THEN "F32"
    ELSE IF ty = "i64" THEN "I64"
    ELSE IF ty = "i32" THEN "I32"
    ELSE IF ty = "String" THEN "STRING"
    ELSE IF ty = "str" THEN "STR"
    ELSE IF ty = "bool" THEN "BOOL"
    ELSE "OBJECT"

TypeOfTag(tag) ==
    CASE tag = "F64" -> "f64"
      [] tag = "F32" -> "f32"
      [] tag = "I64" -> "i64"
      [] tag = "I32" -> "i32"
      [] tag = "STRING" -> "String"
      [] tag = "STR" -> "str"
      [] tag = "BOOL" -> "bool"
      [] OTHER -> "none"

(***************************************************************************)
(* Series<T>.                                                              *)
(***************************************************************************)
create_index(len, prefix, suffix) ==
    [i \in 1..len |-> prefix \o format(i - 1) \o suffix]

Series_from(ty, array) ==
    [array |-> array,
     name  |-> "series",
     index |-> create_index(Len(array), "", ""),
     dtype |-> get_type(ty),
     ty    |-> ty]

set_name(s, name) == [s EXCEPT !.name = name]

(***************************************************************************)
(* The closures a caller passes as func: T -> T.                           *)
(***************************************************************************)
Funcs == {"inc", "dbl"}

Call(func, x) == IF func = "inc" THEN x + 1 ELSE 2 * x

Series_apply(s, func) ==
    [Series_from(s.ty, [i \in 1..Len(s.array) |-> Call(func, s.array[i])])
        EXCEPT !.name = s.name]

(***************************************************************************)
(* series/ops.rs: Series op Series, element by element over the zipped     *)
(* arrays (zip stops at the shorter one); the result is built by           *)
(* Series::from and takes self's name.  The integer types divide by        *)
(* truncation and panic on a zero divisor; a quotient of floats is kept    *)
(* as the exact fraction <<numerator, denominator>> in lowest terms.       *)
(***************************************************************************)
RECURSIVE GCD(_, _)
GCD(a, b) == IF b = 0 THEN a ELSE GCD(b, a % b)

Abs(x) == IF x < 0 THEN 0 - x ELSE x

IntTypes == {"i64", "i32"}

Elem(func, ty, x, y) ==
    CASE func = "add" -> x + y
      [] func = "sub" -> x - y
      [] func = "mul" -> x * y
      [] func = "div" ->
            IF ty \in IntTypes
            THEN x \div y
            ELSE LET g == GCD(Abs(x), Abs(y)) IN <<x \div g, y \div g>>

Series_op(func, self, rhs) ==
    LET n == Min(Len(self.array), Len(rhs.array))
    IN  IF func = "div" /\ \E i \in 1..n : rhs.array[i] = 0
        THEN [ret |-> "panic"]
        ELSE [ret    |-> "Ok",
              series |-> set_name(
                            Series_from(self.ty,
                               [i \in 1..n |-> Elem(func, self.ty, self.array[i], rhs.array[i])]),
                            self.name)]

(***************************************************************************)
(* Block<T>.                                                               *)
(***************************************************************************)
Block_default(ty) == [data |-> <<>>, names |-> <<>>, ty |-> ty]

(* push that puts the new column in front of the Group's columns. *)
Block_push_front(b, other) ==
    IF Len(b.data) > 0 /\ Len(b.data[1].array) # Len(other.array)
    THEN [block |-> b, ret |-> "panic"]
    ELSE [block |-> [b EXCEPT !.names = <<other.name>> \o @,
                              !.data  = <<other>> \o @],
          ret   |-> "Ok"]

Block_push(b, other) ==
    IF Len(b.data) > 0 /\ Len(b.data[1].array) # Len(other.array)
    THEN [block |-> b, ret |-> "panic"]
    ELSE [block |-> [b EXCEPT !.names = Append(@, other.name),
                              !.data  = Append(@, other)],
          ret   |-> "Ok"]

Block_get(b, idx) ==
    IF idx + 1 > Len(b.data)
    THEN [ret |-> "panic"]
    ELSE [ret |-> "Some", series |-> b.data[idx + 1]]

get_series_at_name(b, name) ==
    LET pos == Position(b.names, name)
    IN  IF pos = 0 \/ pos > Len(b.data)
        THEN [ret |-> "panic"]
        ELSE [ret |-> "Some", series |-> b.data[pos]]

(***************************************************************************)
(* BlockManager.                                                           *)
(***************************************************************************)
BlockManager_default ==
    [blocks |-> EmptyMap, values |-> EmptyMap, names |-> <<>>, len |-> 0, index |-> <<>>]

(* get_appropriate_block whose OBJECT arm pops the name but leaves it in *)
(* the name-to-tag map.                                                 *)
get_appropriate_block_keeps_tag(m, dtype, other) ==
    IF dtype = "OBJECT"
    THEN IF Len(m.names) = 0
         THEN [mgr |-> m, ret |-> "panic"]
         ELSE [mgr |-> [m EXCEPT !.names = SubSeq(@, 1, Len(@) - 1)], ret |-> "Ok"]
    ELSE IF other.ty # TypeOfTag(dtype)
    THEN [mgr |-> m, ret |-> "panic"]
    ELSE IF dtype \in DOMAIN m.blocks
    THEN LET r == Block_push(m.blocks[dtype], other)
         IN  [mgr |-> [m EXCEPT !.blocks[dtype] = r.block], ret |-> r.ret]
    ELSE LET r == Block_push(Block_default(other.ty), other)
         IN  [mgr |-> [m EXCEPT !.blocks = MapInsert(@, dtype, r.block)], ret |-> r.ret]

get_appropriate_block(m, dtype, other) ==
    IF dtype = "OBJECT"
    THEN IF Len(m.names) = 0
         THEN [mgr |-> m, ret |-> "panic"]
         ELSE LET names == m.names[Len(m.names)]
              IN  [mgr |-> [m EXCEPT !.names  = SubSeq(@, 1, Len(@) - 1),
                                     !.values = MapRemove(@, names)],
                   ret |-> "Ok"]
    ELSE IF other.ty # TypeOfTag(dtype)
    THEN [mgr |-> m, ret |-> "panic"]
    ELSE IF dtype \in DOMAIN m.blocks
    THEN LET r == Block_push(m.blocks[dtype], other)
         IN  [mgr |-> [m EXCEPT !.blocks[dtype] = r.block], ret |-> r.ret]
    ELSE LET r == Block_push(Block_default(other.ty), other)
         IN  [mgr |-> [m EXCEPT !.blocks = MapInsert(@, dtype, r.block)], ret |-> r.ret]

(* add_series without the length check. *)
add_series_unchecked_length(m, series, preserve_names) ==
    LET rename == Contains(m.names, series.name) \/ ~preserve_names
        name   == format(Cardinality(DOMAIN m.values))
        other  == IF rename THEN set_name(series, name) ELSE series
    IN  IF rename /\ Contains(m.names, name)
        THEN [mgr |-> m, ret |-> "ColumnNameErrors"]
        ELSE LET m1 == IF DOMAIN m.blocks = {}
                       THEN [m EXCEPT !.len   = Len(other.array),
                                      !.index = @ \o other.index]
                       ELSE m
                 m2 == [m1 EXCEPT !.names  = Append(@, other.name),
                                  !.values = MapInsert(@, other.name, other.dtype)]
             IN  get_appropriate_block(m2, other.dtype, other)

(* add_series that renames to the column count plus one. *)
add_series_rename_off_by_one(m, series, preserve_names) ==
    IF DOMAIN m.blocks # {} /\ Len(series.array) # m.len
    THEN [mgr |-> m, ret |-> "DifferentLength"]
    ELSE LET rename == Contains(m.names, series.name) \/ ~preserve_names
             name   == format(Cardinality(DOMAIN m.values) + 1)
             other  == IF rename THEN set_name(series, name) ELSE series
         IN  IF rename /\ Contains(m.names, name)
             THEN [mgr |-> m, ret |-> "ColumnNameErrors"]
             ELSE LET m1 == IF DOMAIN m.blocks = {}
                            THEN [m EXCEPT !.len   = Len(other.array),
                                           !.index = @ \o other.index]
                            ELSE m
                      m2 == [m1 EXCEPT !.names  = Append(@, other.name),
                                       !.values = MapInsert(@, other.name, other.dtype)]
                  IN  get_appropriate_block(m2, other.dtype, other)

(* add_series that does not check the renumbered name against the names. *)
add_series_unchecked_rename(m, series, preserve_names) ==
    IF DOMAIN m.blocks # {} /\ Len(series.array) # m.len
    THEN [mgr |-> m, ret |-> "DifferentLength"]
    ELSE LET rename == Contains(m.names, series.name) \/ ~preserve_names
             name   == format(Cardinality(DOMAIN m.values))
             other  == IF rename THEN set_name(series, name) ELSE series
             m1 == IF DOMAIN m.blocks = {}
                   THEN [m EXCEPT !.len   = Len(other.array),
                                  !.index = @ \o other.index]
                   ELSE m
             m2 == [m1 EXCEPT !.names  = Append(@, other.name),
                              !.values = MapInsert(@, other.name, other.dtype)]
         IN  get_appropriate_block(m2, other.dtype, other)

(* add_series that records the name before it checks the length. *)
add_series_late_length_check(m, series, preserve_names) ==
    LET pushed == [m EXCEPT !.names = Append(@, series.name)]
    IN  IF DOMAIN m.blocks # {} /\ Len(series.array) # m.len
        THEN [mgr |-> pushed, ret |-> "DifferentLength"]
        ELSE LET rename == Contains(m.names, series.name) \/ ~preserve_names
                 name   == format(Cardinality(DOMAIN m.values))
                 other  == IF rename THEN set_name(series, name) ELSE series
             IN  IF rename /\ Contains(m.names, name)
                 THEN [mgr |-> m, ret |-> "ColumnNameErrors"]
                 ELSE LET m1 == IF DOMAIN m.blocks = {}
                                THEN [m EXCEPT !.len   = Len(other.array),
                                               !.index = @ \o other.index]
                                ELSE m
                          m2 == [m1 EXCEPT !.names  = Append(@, other.name),
                                           !.values = MapInsert(@, other.name, other.dtype)]
                      IN  get_appropriate_block(m2, other.dtype, other)

add_series(m, series, preserve_names) ==
    IF DOMAIN m.blocks # {} /\ Len(series.array) # m.len
    THEN [mgr |-> m, ret |-> "DifferentLength"]
    ELSE LET rename == Contains(m.names, series.name) \/ ~preserve_names
             name   == format(Cardinality(DOMAIN m.values))
             other  == IF rename THEN set_name(series, name) ELSE series
         IN  IF rename /\ Contains(m.names, name)
             THEN [mgr |-> m, ret |-> "ColumnNameErrors"]
             ELSE LET m1 == IF DOMAIN m.blocks = {}
                            THEN [m EXCEPT !.len   = Len(other.array),
                                           !.index = @ \o other.index]
                            ELSE m
                      m2 == [m1 EXCEPT !.names  = Append(@, other.name),
                                       !.values = MapInsert(@, other.name, other.dtype)]
                  IN  get_appropriate_block(m2, other.dtype, other)


(***************************************************************************)
(* BlockManager::get::<T>: the first Group whose element type is T (there  *)
(* is at most one, the Groups being keyed by tag) answers; the name is     *)
(* looked up in that Group alone.                                          *)
(***************************************************************************)
BlockManager_get(m, T, col) ==
    LET hit == {g \in DOMAIN m.blocks : m.blocks[g].ty = T}
    IN  IF hit = {}
        THEN [ret |-> "None"]
        ELSE get_series_at_name(m.blocks[CHOOSE g \in hit : TRUE], col)

(***************************************************************************)
(* extend_from_block and Clone.  A HashMap is visited in an order the      *)
(* program does not control: clone takes the order of the Groups as a      *)
(* parameter, Orders(m) being the orders possible.                         *)
(***************************************************************************)
RECURSIVE extend_loop(_, _, _)
extend_loop(m, data, k) ==
    IF k > Len(data)
    THEN [mgr |-> m, ret |-> "Ok"]
    ELSE LET r == add_series(m, data[k], TRUE)
         IN  IF r.ret # "Ok"
             THEN [mgr |-> r.mgr, ret |-> "panic"]
             ELSE extend_loop(r.mgr, data, k + 1)

extend_from_block(m, block) == extend_loop(m, block.data, 1)

reindex(m, new_names) == [m EXCEPT !.names = new_names]

Orders(m) ==
    LET D == DOMAIN m.blocks
        n == Cardinality(D)
    IN  {o \in [1..n -> D] : \A i, j \in 1..n : i # j => o[i] # o[j]}

RECURSIVE clone_loop(_, _, _, _)
clone_loop(self, order, k, block_mgr) ==
    IF k > Len(order)
    THEN [mgr |-> block_mgr, ret |-> "Ok"]
    ELSE LET g == order[k]
         IN  IF g = "OBJECT"
             THEN clone_loop(self, order, k + 1, block_mgr)
             ELSE IF self.blocks[g].ty # TypeOfTag(g)
             THEN [mgr |-> block_mgr, ret |-> "panic"]
             ELSE LET r == extend_from_block(block_mgr, self.blocks[g])
                  IN  IF r.ret # "Ok"
                      THEN r
                      ELSE clone_loop(self, order, k + 1, r.mgr)

(* Clone that leaves the names in the order the Groups were visited. *)
clone_without_reindex(self, order) ==
    clone_loop(self, order, 1, BlockManager_default)

clone(self, order) ==
    LET r == clone_loop(self, order, 1, BlockManager_default)
    IN  IF r.ret # "Ok" THEN r ELSE [mgr |-> reindex(r.mgr, self.names), ret |-> "Ok"]

(***************************************************************************)
(* assign and assign_inplace.                                              *)
(***************************************************************************)
(* assign that inserts the fetched column instead of the computed one. *)
assign_without_apply(self, T, key, name, func, order) ==
    LET got == BlockManager_get(self, T, key)
    IN  IF got.ret = "panic" THEN [mgr |-> self, ret |-> "panic"]
        ELSE IF got.ret = "None" THEN [mgr |-> self, ret |-> "KeyError"]
        ELSE LET new_series == set_name(got.series, name)
                 df == clone(self, order)
             IN  IF df.ret # "Ok"
                 THEN [mgr |-> self, ret |-> "panic"]
                 ELSE LET r == add_series(df.mgr, new_series, TRUE)
                      IN  IF r.ret # "Ok"
                          THEN [mgr |-> self, ret |-> "panic"]
                          ELSE [mgr |-> r.mgr, ret |-> "Ok"]

assign(self, T, key, name, func, order) ==
    LET got == BlockManager_get(self, T, key)
    IN  IF got.ret = "panic" THEN [mgr |-> self, ret |-> "panic"]
        ELSE IF got.ret = "None" THEN [mgr |-> self, ret |-> "KeyError"]
        ELSE LET new_series == set_name(Series_apply(got.series, func), name)
                 df == clone(self, order)
             IN  IF df.ret # "Ok"
                 THEN [mgr |-> self, ret |-> "panic"]
                 ELSE LET r == add_series(df.mgr, new_series, TRUE)
                      IN  IF r.ret # "Ok"
                          THEN [mgr |-> self, ret |-> "panic"]
                          ELSE [mgr |-> r.mgr, ret |-> "Ok"]

assign_inplace(self, T, key, name, func) ==
    LET got == BlockManager_get(self, T, key)
    IN  IF got.ret = "panic" THEN [mgr |-> self, ret |-> "panic"]
        ELSE IF got.ret = "None" THEN [mgr |-> self, ret |-> "KeyError"]
        ELSE LET new_series == set_name(Series_apply(got.series, func), name)
                 r == add_series(self, got.series, TRUE)
             IN  IF r.ret # "Ok"
                 THEN [mgr |-> r.mgr, ret |-> "panic"]
                 ELSE [mgr |-> r.mgr, ret |-> "Ok"]

(***************************************************************************)
(* apply_map.  keys holds one tag for every entry of the name-to-tag map   *)
(* (values.values()), so a tag occurs once per column that carries it;     *)
(* KeyOrders(m) are the orders in which the map may yield its entries.     *)
(***************************************************************************)
Block_from(data, ty) ==
    [data |-> data, names |-> [i \in 1..Len(data) |-> data[i].name], ty |-> ty]

Block_apply_map(b, func) ==
    Block_from([i \in 1..Len(b.data) |-> Series_apply(b.data[i], func)], b.ty)

KeyOrders(m) ==
    LET D == DOMAIN m.values
        n == Cardinality(D)
    IN  {o \in [1..n -> D] : \A i, j \in 1..n : i # j => o[i] # o[j]}

RECURSIVE apply_map_loop(_, _, _, _, _, _)
apply_map_loop(self, T, func, keys, k, block_mgr) ==
    IF k > Len(keys)
    THEN [mgr |-> block_mgr, ret |-> "Ok"]
    ELSE LET i == self.values[keys[k]]
         IN  IF i \notin DOMAIN self.blocks
             THEN [mgr |-> block_mgr, ret |-> "panic"]
             ELSE IF self.blocks[i].ty # T
             THEN apply_map_loop(self, T, func, keys, k + 1, block_mgr)
             ELSE LET r == extend_from_block(block_mgr,
                                             Block_apply_map(self.blocks[i], func))
                  IN  IF r.ret # "Ok"
                      THEN r
                      ELSE apply_map_loop(self, T, func, keys, k + 1, r.mgr)

apply_map(self, T, func, keys) ==
    apply_map_loop(self, T, func, keys, 1, BlockManager_default)

(***************************************************************************)
(* Column operations of series/generic.rs.  reindex checks the length of   *)
(* the new index with a debug_assert_eq! only.                             *)
(***************************************************************************)
SetOf(seq) == {seq[i] : i \in 1..Len(seq)}

validate_names(me, other) ==
    IF Cardinality(SetOf(me)) # Cardinality(SetOf(other)) THEN "Err" ELSE "Ok"

Series_reindex(self, new_index, verify_integrity, debug_assertions) ==
    IF debug_assertions /\ Len(new_index) # Len(self.array)
    THEN [ret |-> "panic", series |-> self]
    ELSE IF verify_integrity /\ validate_names(self.index, new_index) # "Ok"
    THEN [ret |-> "panic", series |-> self]
    ELSE [ret |-> "Ok", series |-> [self EXCEPT !.index = new_index]]

set_index(self, index, debug_assertions) ==
    Series_reindex(self, index, FALSE, debug_assertions)

Series_from_pairs(ty, names, array) ==
    Series_reindex(Series_from(ty, array), names, FALSE, TRUE).series

set_dtype(self, dtype) == [self EXCEPT !.dtype = dtype]

Conds == {"odd", "big"}

CallCond(cond, x) == IF cond = "odd" THEN x % 2 = 1 ELSE x > 1

Series_mask(self, value, cond) ==
    set_name(Series_from(self.ty,
                 [i \in 1..Len(self.array) |->
                     IF CallCond(cond, self.array[i]) THEN value ELSE self.array[i]]),
             self.name)

Series_transform(self, func, M) ==
    set_name(Series_from(M, [i \in 1..Len(self.array) |-> Call(func, self.array[i])]),
             self.name)

(***************************************************************************)
(* combine.  The length check of Series::combine is a debug_assert_eq!: it *)
(* is compiled in only when debug assertions are on, so the build is an    *)
(* input (debug_assertions).  other.array[len] is a checked index.         *)
(***************************************************************************)
CombFuncs == {"max", "add"}

Call2(func, x, y) == IF func = "max" THEN (IF x < y THEN y ELSE x) ELSE x + y

Series_combine(self, other, func, debug_assertions) ==
    IF debug_assertions /\ Len(self.array) # Len(other.array)
    THEN [ret |-> "panic"]
    ELSE IF Len(other.array) < Len(self.array)
    THEN [ret |-> "panic"]
    ELSE [ret |-> "Ok",
          series |-> Series_from(self.ty,
                        [len \in 1..Len(self.array) |->
                            Call2(func, self.array[len], other.array[len])])]

RECURSIVE combine_loop(_, _, _, _, _, _, _)
combine_loop(self, other, T, func, debug_assertions, k, df) ==
    IF k > Len(self.names)
    THEN [mgr |-> df, ret |-> "Ok"]
    ELSE LET i    == self.names[k]
             me   == BlockManager_get(self, T, i)
             them == BlockManager_get(other, T, i)
         IN  IF me.ret # "Some" \/ them.ret = "panic"
             THEN [mgr |-> df, ret |-> "panic"]
             ELSE IF them.ret = "None"
             THEN combine_loop(self, other, T, func, debug_assertions, k + 1, df)
             ELSE LET c == Series_combine(me.series, them.series, func, debug_assertions)
                  IN  IF c.ret # "Ok"
                      THEN [mgr |-> df, ret |-> "panic"]
                      ELSE LET r == add_series(df, c.series, TRUE)
                           IN  IF r.ret # "Ok"
                               THEN [mgr |-> df, ret |-> "panic"]
                               ELSE combine_loop(self, other, T, func,
                                                 debug_assertions, k + 1, r.mgr)

combine(self, other, T, func, debug_assertions, order) ==
    LET me == clone(self, order)
    IN  IF me.ret # "Ok"
        THEN [mgr |-> BlockManager_default, ret |-> "panic"]
        ELSE combine_loop(me.mgr, other, T, func, debug_assertions, 1,
                          BlockManager_default)

(***************************************************************************)
(* at.  loc is (column, row); the name-to-tag map is consulted with        *)
(* loc.1.  Series_index_str is Index<&str> for Series.                     *)
(***************************************************************************)
Series_index_str(s, index) ==
    IF ~Contains(s.index, index)
    THEN [ret |-> "panic"]
    ELSE LET p == Position(s.index, index)
         IN  IF p > Len(s.array)
             THEN [ret |-> "panic"]
             ELSE [ret |-> "Some", value |-> s.array[p]]

BlockManager_at(self, T, loc) ==
    IF loc[2] \notin DOMAIN self.values
    THEN [ret |-> "None"]
    ELSE LET dtype == self.values[loc[2]]
         IN  IF dtype \notin DOMAIN self.blocks
             THEN [ret |-> "panic"]
             ELSE LET block == self.blocks[dtype]
                  IN  IF block.ty # T
                      THEN [ret |-> "None"]
                      ELSE IF ~Contains(block.names, loc[1])
                      THEN [ret |-> "panic"]
                      ELSE Series_index_str(
                               block.data[Position(block.names, loc[1])], loc[2])

(***************************************************************************)
(* format, head and tail.  Rows are numbered from 0 as in the source; a    *)
(* rendered row is its label followed by its cells.  Every tag has its own *)
(* counter, which for the column at position j of names is the number of   *)
(* earlier names of the same tag.  get_value_at and index[i] are checked   *)
(* accesses.  In tail, self.len - n is a usize subtraction: with overflow  *)
(* checks it panics when n > len, without them it wraps to                 *)
(* 2^64 - (n - len), which is above len, so the range start..len is empty. *)
(***************************************************************************)
format_cell(self, i, j) ==
    LET name == self.names[j]
    IN  IF name \notin DOMAIN self.values
        THEN [ret |-> "panic"]
        ELSE LET value == self.values[name]
             IN  IF value \notin DOMAIN self.blocks
                 THEN [ret |-> "panic"]
                 ELSE LET block   == self.blocks[value]
                          counter == Cardinality({k \in 1..(j - 1) :
                                         /\ self.names[k] \in DOMAIN self.values
                                         /\ self.values[self.names[k]] = value})
                      IN  IF block.ty # TypeOfTag(value)
                          THEN [ret |-> "panic"]
                          ELSE IF counter >= Len(block.data)
                          THEN [ret |-> "panic"]
                          ELSE IF i >= Len(block.data[counter + 1].array)
                          THEN [ret |-> "panic"]
                          ELSE [ret |-> "Ok",
                                cell |-> block.data[counter + 1].array[i + 1]]

format_row(self, i) ==
    LET cells == [j \in 1..Len(self.names) |-> format_cell(self, i, j)]
    IN  IF \E j \in 1..Len(self.names) : cells[j].ret = "panic"
        THEN [ret |-> "panic"]
        ELSE IF i >= Len(self.index)
        THEN [ret |-> "panic"]
        ELSE [ret |-> "Ok",
              row |-> [at |-> i, label |-> self.index[i + 1],
                       cells |-> [j \in 1..Len(self.names) |-> cells[j].cell]]]

RECURSIVE format_loop(_, _, _, _)
format_loop(self, i, end, table) ==
    IF i >= end
    THEN [ret |-> "Ok", rows |-> table]
    ELSE LET r == format_row(self, i)
         IN  IF r.ret # "Ok"
             THEN [ret |-> "panic", rows |-> <<>>]
             ELSE format_loop(self, i + 1, end, Append(table, r.row))

BlockManager_format(self, start, end) == format_loop(self, start, end, <<>>)

head(self, n) == BlockManager_format(self, 0, n)

tail(self, n, overflow_checks) ==
    IF n > self.len
    THEN IF overflow_checks
         THEN [ret |-> "panic", rows |-> <<>>]
         ELSE [ret |-> "Ok", rows |-> <<>>]
    ELSE BlockManager_format(self, self.len - n, self.len)

(***************************************************************************)
(* real_formatter: the rows that Debug and Display print.  The Store is    *)
(* printed whole when len < 10, otherwise as the first 5 rows, a row of    *)
(* "...." cells and the last 5 rows.  The "...." row is kept with at = -1  *)
(* (it shows no row of the Store).  In debug mode an empty row and a row   *)
(* of tags follow; they are not rows of the Store and are left out.        *)
(***************************************************************************)
EllipsisRow(self) ==
    [at |-> -1, label |-> "....",
     cells |-> [j \in 1..Cardinality(DOMAIN self.values) |-> "...."]]

real_formatter(self, debug) ==
    IF self.len < 10
    THEN BlockManager_format(self, 0, self.len)
    ELSE LET first == BlockManager_format(self, 0, 5)
             last_five == self.len - 5
             last  == BlockManager_format(self, last_five, self.len)
         IN  IF first.ret # "Ok" \/ last.ret # "Ok"
             THEN [ret |-> "panic", rows |-> <<>>]
             ELSE IF debug /\ \E i \in 1..Len(self.names) :
                                 self.names[i] \notin DOMAIN self.values
             THEN [ret |-> "panic", rows |-> <<>>]
             ELSE [ret |-> "Ok",
                   rows |-> first.rows \o <<EllipsisRow(self)>> \o last.rows]

(***************************************************************************)
(* io/dtypes.rs and Reader::to_dataframe.  A raw value is the sequence of  *)
(* its characters.  parse_i32, parse_f64 and parse_bool are str::parse for *)
(* i32, f64 and bool on the raw values the model draws (an optional sign,  *)
(* digits, at most one '.', or letters; no exponent and no value beyond    *)
(* the i32 range occurs among them).  A parsed float is kept as the exact  *)
(* fraction <<numerator, denominator>> in lowest terms.                    *)
(***************************************************************************)
IsDigit(c) == Contains(Digits, c)

AllDigits(s) == \A i \in 1..Len(s) : IsDigit(s[i])

RECURSIVE DigitsValue(_)
DigitsValue(s) ==
    IF s = <<>> THEN 0
    ELSE 10 * DigitsValue(SubSeq(s, 1, Len(s) - 1)) + (Position(Digits, s[Len(s)]) - 1)

RECURSIVE Pow10(_)
Pow10(n) == IF n = 0 THEN 1 ELSE 10 * Pow10(n - 1)

Signed(s) == s # <<>> /\ s[1] \in {"+", "-"}

Unsigned(s) == IF Signed(s) THEN Tail(s) ELSE s

SignOf(s) == IF Signed(s) /\ s[1] = "-" THEN -1 ELSE 1

parse_i32(s) ==
    LET body == Unsigned(s)
    IN  IF body = <<>> \/ ~AllDigits(body)
        THEN [ok |-> FALSE]
        ELSE [ok |-> TRUE, value |-> SignOf(s) * DigitsValue(body)]

parse_f64(s) ==
    LET body == Unsigned(s)
        dots == {i \in 1..Len(body) : body[i] = "."}
    IN  IF Cardinality(dots) > 1
        THEN [ok |-> FALSE]
        ELSE LET d     == IF dots = {} THEN Len(body) + 1 ELSE CHOOSE i \in dots : TRUE
                 whole == SubSeq(body, 1, d - 1)
                 frac  == SubSeq(body, d + 1, Len(body))
             IN  IF (whole = <<>> /\ frac = <<>>) \/ ~AllDigits(whole) \/ ~AllDigits(frac)
                 THEN [ok |-> FALSE]
                 ELSE LET num == DigitsValue(whole \o frac)
                          den == Pow10(Len(frac))
                          g   == GCD(num, den)
                      IN  [ok |-> TRUE, value |-> <<SignOf(s) * (num \div g), den \div g>>]

parse_bool(s) ==
    IF s = <<"t", "r", "u", "e">> THEN [ok |-> TRUE, value |-> TRUE]
    ELSE IF s = <<"f", "a", "l", "s", "e">> THEN [ok |-> TRUE, value |-> FALSE]
    ELSE [ok |-> FALSE]

is_int(val) == \A i \in 1..Len(val) : parse_i32(val[i]).ok

is_float(val) == \A i \in 1..Len(val) : parse_f64(val[i]).ok

is_bool(val) == \A i \in 1..Len(val) : parse_i32(val[i]).ok

str_to_int(val) ==
    [i \in 1..Len(val) |-> IF parse_i32(val[i]).ok THEN parse_i32(val[i]).value ELSE 0]

str_to_float(val) ==
    [i \in 1..Len(val) |-> IF parse_f64(val[i]).ok THEN parse_f64(val[i]).value ELSE "NaN"]

str_to_bool(val) ==
    [i \in 1..Len(val) |-> IF parse_bool(val[i]).ok THEN parse_bool(val[i]).value ELSE FALSE]

RECURSIVE to_dataframe_loop(_, _, _, _, _)
to_dataframe_loop(data, headers, size, i, df) ==
    IF i > Len(data)
    THEN [mgr |-> df, ret |-> "Ok"]
    ELSE IF i > Len(headers)
    THEN [mgr |-> df, ret |-> "panic"]
    ELSE LET j      == data[i]
             sample == SubSeq(j, 1, size)
             series == IF is_int(sample) THEN Series_from("i32", str_to_int(j))
                       ELSE IF is_float(sample) THEN Series_from("f64", str_to_float(j))
                       ELSE IF is_bool(sample) THEN Series_from("bool", str_to_bool(j))
                       ELSE Series_from("String", j)
             r      == add_series(df, set_name(series, headers[i]), TRUE)
         IN  IF r.ret # "Ok"
             THEN [mgr |-> df, ret |-> "panic"]
             ELSE to_dataframe_loop(data, headers, size, i + 1, r.mgr)

to_dataframe(data, headers) ==
    IF Len(data) = 0
    THEN [mgr |-> BlockManager_default, ret |-> "panic"]
    ELSE to_dataframe_loop(data, headers, Min(10, Len(data[1])), 1,
                           BlockManager_default)

(***************************************************************************)
(* DataFrame::from(Array2) and to_ndarray.  A two-dimensional array is the *)
(* sequence of its rows.  Block::to_ndarray lays the columns of the Group  *)
(* end to end in temp_vec and hands that to Array2::from_shape_vec with    *)
(* the shape (rows, columns), which fills the array row by row.            *)
(***************************************************************************)
RECURSIVE from_array2_loop(_, _, _, _, _, _)
from_array2_loop(ty, array, rows, cols, i, frame) ==
    IF i > cols
    THEN [mgr |-> frame, ret |-> "Ok"]
    ELSE LET one_col == set_name(Series_from(ty, [k \in 1..rows |-> array[k][i]]),
                                 format(i - 1))
             r       == add_series(frame, one_col, TRUE)
         IN  IF r.ret # "Ok"
             THEN [mgr |-> frame, ret |-> "panic"]
             ELSE from_array2_loop(ty, array, rows, cols, i + 1, r.mgr)

DataFrame_from_array2(ty, array) ==
    LET rows == Len(array)
        cols == IF rows = 0 THEN 0 ELSE Len(array[1])
    IN  from_array2_loop(ty, array, rows, cols, 1, BlockManager_default)

RECURSIVE Concat(_, _)
Concat(data, k) ==
    IF k > Len(data) THEN <<>> ELSE data[k].array \o Concat(data, k + 1)

from_shape_vec(rows, cols, v) ==
    IF Len(v) # rows * cols
    THEN [ret |-> "Err"]
    ELSE [ret |-> "Ok",
          array |-> [i \in 1..rows |-> [j \in 1..cols |-> v[(i - 1) * cols + j]]]]

Block_to_ndarray(b) ==
    IF Len(b.data) = 0
    THEN [ret |-> "panic"]
    ELSE LET temp_vec == Concat(b.data, 1)
             array2   == from_shape_vec(Len(b.data[1].array), Len(b.data), temp_vec)
         IN  IF array2.ret # "Ok"
             THEN [ret |-> "panic"]
             ELSE [ret |-> "Some", array |-> array2.array]

to_ndarray(self, T) ==
    LET hit == {g \in DOMAIN self.blocks : self.blocks[g].ty = T}
    IN  IF hit = {}
        THEN [ret |-> "None"]
        ELSE Block_to_ndarray(self.blocks[CHOOSE g \in hit : TRUE])

(***************************************************************************)
(* drop and equals.  drop_ walks the index labels and fetches the value of *)
(* every retained label with Index<&str>, which answers with the entry at  *)
(* the first position that carries the label.  The length check of equals  *)
(* is a debug_assert_eq!; other[len] is a checked index.  equals answers   *)
(* "true" or "false".                                                      *)
(***************************************************************************)
RECURSIVE drop_loop(_, _, _, _, _)
drop_loop(self, labels, k, retained, names) ==
    IF k > Len(self.index)
    THEN [ret |-> "Ok", retained |-> retained, names |-> names]
    ELSE LET f == self.index[k]
         IN  IF Contains(labels, f)
             THEN drop_loop(self, labels, k + 1, retained, names)
             ELSE LET v == Series_index_str(self, f)
                  IN  IF v.ret # "Some"
                      THEN [ret |-> "panic", retained |-> retained, names |-> names]
                      ELSE drop_loop(self, labels, k + 1,
                                     Append(retained, v.value), Append(names, f))

drop_(self, labels) == drop_loop(self, labels, 1, <<>>, <<>>)

Series_drop(self, labels, debug_assertions) ==
    LET d == drop_(self, labels)
    IN  IF d.ret # "Ok"
        THEN [ret |-> "panic", series |-> self]
        ELSE Series_reindex(Series_from(self.ty, d.retained), d.names, FALSE,
                            debug_assertions)

RECURSIVE equals_loop(_, _, _)
equals_loop(self, other, len) ==
    IF len > Len(self.array) THEN "true"
    ELSE IF len > Len(other.array) THEN "panic"
    ELSE IF self.array[len] = other.array[len] THEN "false"
    ELSE equals_loop(self, other, len + 1)

Series_equals(self, other, debug_assertions) ==
    IF debug_assertions /\ Len(self.array) # Len(other.array)
    THEN "panic"
    ELSE equals_loop(self, other, 1)

(***************************************************************************)
(* block_manager/ops.rs, generate_df_ops: self op rhs.  The four counters  *)
(* are kept as the macro keeps them; every arm indexes its Group with      *)
(* f64_counter.                                                            *)
(***************************************************************************)
NumericTags == {"F64", "F32", "I64", "I32"}

CounterOf(dtype) ==
    CASE dtype = "F64" -> "f64_counter"
      [] dtype = "F32" -> "f32_counter"
      [] dtype = "I64" -> "i64_counter"
      [] dtype = "I32" -> "i32_counter"

NoCounters ==
    [f64_counter |-> 0, f32_counter |-> 0, i32_counter |-> 0, i64_counter |-> 0]

RECURSIVE df_ops_loop(_, _, _, _, _, _)
df_ops_loop(self, rhs, func, k, block, ctr) ==
    IF k > Len(self.names)
    THEN [mgr |-> block, ret |-> "Ok"]
    ELSE LET i == self.names[k]
         IN  IF i \notin DOMAIN self.values
             THEN [mgr |-> block, ret |-> "panic"]
             ELSE LET dtype == self.values[i]
                  IN  IF dtype \notin NumericTags
                      THEN df_ops_loop(self, rhs, func, k + 1, block, ctr)
                      ELSE IF \/ dtype \notin DOMAIN self.blocks
                              \/ self.blocks[dtype].ty # TypeOfTag(dtype)
                      THEN [mgr |-> block, ret |-> "panic"]
                      ELSE LET me    == Block_get(self.blocks[dtype], ctr.f64_counter)
                               other == BlockManager_get(rhs, TypeOfTag(dtype), i)
                           IN  IF me.ret = "panic" \/ other.ret = "panic"
                               THEN [mgr |-> block, ret |-> "panic"]
                               ELSE IF other.ret = "None"
                               THEN df_ops_loop(self, rhs, func, k + 1, block, ctr)
                               ELSE LET v == Series_op(func, me.series, other.series)
                                        r == IF v.ret = "Ok"
                                             THEN add_series(block, v.series, TRUE)
                                             ELSE [mgr |-> block, ret |-> "panic"]
                                    IN  IF r.ret # "Ok"
                                        THEN [mgr |-> block, ret |-> "panic"]
                                        ELSE df_ops_loop(self, rhs, func, k + 1, r.mgr,
                                                [ctr EXCEPT ![CounterOf(dtype)] = @ + 1])

df_ops(self, rhs, func) ==
    df_ops_loop(self, rhs, func, 1, BlockManager_default, NoCounters)

(***************************************************************************)
(* Inputs: the columns a caller hands to add_series.  Iota(n) is the       *)
(* array 1, 2, .., n.                                                      *)
(***************************************************************************)
Iota(n) == [i \in 1..n |-> i]

StoreNames == {"a", "1"}

StoreTypes == {"f64", "i64", "other"}

StoreCols ==
    {set_name(Series_from(ty, Iota(n)), nm) :
        ty \in StoreTypes, n \in 1..MaxLen, nm \in StoreNames}

(***************************************************************************)
(* Spec: one Store, grown from empty by add_series calls.                  *)
(***************************************************************************)
NoCall == [op |-> "none", ret |-> "Ok"]

NoOut == [kind |-> "none"]

(* No parallel section is in progress. *)
NoWorkers == [pc |-> "idle"]

Init ==
    /\ t1 = BlockManager_default
    /\ t2 = BlockManager_default
    /\ out = NoOut
    /\ call = NoCall
    /\ workers = NoWorkers

AddSeries ==
    /\ call.ret # "panic"
    /\ Len(t1.names) < MaxCols
    /\ Len(t1.index) <= MaxLen
    /\ \E series \in StoreCols, preserve_names \in BOOLEAN :
          LET r == add_series(t1, series, preserve_names)
          IN  /\ t1' = r.mgr
              /\ call' = [op |-> "add_series", series |-> series,
                          preserve_names |-> preserve_names, ret |-> r.ret]
    /\ UNCHANGED <<t2, out, workers>>

(***************************************************************************)
(* The typed lookups a caller makes: an element type, a key, a new name.   *)
(***************************************************************************)
AskTypes == {"f64", "i64"}

AskKeys == {"a", "1"}

NewNames == {"b", "1"}

Get ==
    /\ call.ret # "panic"
    /\ \E T \in AskTypes, col \in AskKeys :
          LET r == BlockManager_get(t1, T, col)
          IN  /\ out' = IF r.ret = "Some"
                        THEN [kind |-> "series", series |-> r.series]
                        ELSE NoOut
              /\ call' = [op |-> "get", T |-> T, col |-> col, ret |-> r.ret]
    /\ UNCHANGED <<t1, t2, workers>>

Assign ==
    /\ call.ret # "panic"
    /\ \E T \in AskTypes, key \in AskKeys, name \in NewNames, func \in Funcs,
          order \in Orders(t1) :
          LET r == assign(t1, T, key, name, func, order)
          IN  /\ out' = IF r.ret = "Ok" THEN [kind |-> "table", mgr |-> r.mgr] ELSE NoOut
              /\ call' = [op |-> "assign", T |-> T, key |-> key, name |-> name,
                          func |-> func, ret |-> r.ret]
    /\ UNCHANGED <<t1, t2, workers>>

AssignInplace ==
    /\ call.ret # "panic"
    /\ Len(t1.names) < MaxCols
    /\ \E T \in AskTypes, key \in AskKeys, name \in NewNames, func \in Funcs :
          LET r == assign_inplace(t1, T, key, name, func)
          IN  /\ t1' = r.mgr
              /\ call' = [op |-> "assign_inplace", T |-> T, key |-> key, name |-> name,
                          func |-> func, ret |-> r.ret]
    /\ UNCHANGED <<t2, out, workers>>

Clone ==
    /\ call.ret # "panic"
    /\ \E order \in Orders(t1) :
          LET r == clone(t1, order)
          IN  /\ out' = IF r.ret = "Ok" THEN [kind |-> "table", mgr |-> r.mgr] ELSE NoOut
              /\ call' = [op |-> "clone", order |-> order, ret |-> r.ret]
    /\ UNCHANGED <<t1, t2, workers>>

ApplyMap ==
    /\ call.ret # "panic"
    /\ \E T \in AskTypes, func \in Funcs, keys \in KeyOrders(t1) :
          LET r == apply_map(t1, T, func, keys)
          IN  /\ out' = IF r.ret = "Ok" THEN [kind |-> "table", mgr |-> r.mgr] ELSE NoOut
              /\ call' = [op |-> "apply_map", T |-> T, func |-> func, ret |-> r.ret]
    /\ UNCHANGED <<t1, t2, workers>>

AtCols == {"a", "0", "1"}

AtRows == {"0", "1"}

At ==
    /\ call.ret # "panic"
    /\ \E T \in AskTypes, col \in AtCols, row \in AtRows :
          LET r == BlockManager_at(t1, T, <<col, row>>)
          IN  /\ out' = IF r.ret = "Some" THEN [kind |-> "value", value |-> r.value]
                                           ELSE NoOut
              /\ call' = [op |-> "at", T |-> T, col |-> col, row |-> row, ret |-> r.ret]
    /\ UNCHANGED <<t1, t2, workers>>

DoHead ==
    /\ call.ret # "panic"
    /\ \E n \in 0..(MaxLen + 1) :
          LET r == head(t1, n)
          IN  /\ out' = IF r.ret = "Ok" THEN [kind |-> "rows", rows |-> r.rows] ELSE NoOut
              /\ call' = [op |-> "head", n |-> n, ret |-> r.ret]
    /\ UNCHANGED <<t1, t2, workers>>

DoTail ==
    /\ call.ret # "panic"
    /\ \E n \in 0..(MaxLen + 1), overflow_checks \in BOOLEAN :
          LET r == tail(t1, n, overflow_checks)
          IN  /\ out' = IF r.ret = "Ok" THEN [kind |-> "rows", rows |-> r.rows] ELSE NoOut
              /\ call' = [op |-> "tail", n |-> n, ret |-> r.ret]
    /\ UNCHANGED <<t1, t2, workers>>

Next == AddSeries \/ Get \/ Assign \/ AssignInplace \/ Clone

(***************************************************************************)
(* SpecRead: the same Store, grown by add_series calls, under the          *)
(* operations that read it: apply_map, at, head and tail.                  *)
(***************************************************************************)
NextRead == AddSeries \/ ApplyMap \/ At \/ DoHead \/ DoTail

SpecRead == Init /\ [][NextRead]_vars

Spec == Init /\ [][Next]_vars

(***************************************************************************)
(* SpecArith: t1 op t2 for two tables.  The operands are tables that       *)
(* add_series calls build from the columns ArithCols; the operator         *)
(* consumes both, so a behaviour applies one operator.                     *)
(***************************************************************************)
ArrayFrom(n, v) == [i \in 1..n |-> v + i - 1]

ArithNames == {"a", "b"}

ArithTypes == {"f64", "i64", "String"}

ArithCols ==
    {set_name(Series_from(ty, ArrayFrom(MaxLen, v)), nm) :
        ty \in ArithTypes, v \in {1, 2}, nm \in ArithNames}

RECURSIVE TablesOver(_, _)
TablesOver(cols, k) ==
    IF k = 0
    THEN {BlockManager_default}
    ELSE LET prev == TablesOver(cols, k - 1)
         IN  prev \cup {add_series(m, c, TRUE).mgr : m \in prev, c \in cols}

ArithTables == TablesOver(ArithCols, MaxCols)

ArithFuncs == {"add", "sub", "mul", "div"}

InitArith ==
    /\ t1 \in ArithTables
    /\ t2 \in ArithTables
    /\ out = NoOut
    /\ call = NoCall
    /\ workers = NoWorkers

Arith ==
    /\ call.op = "none"
    /\ \E func \in ArithFuncs :
          LET r == df_ops(t1, t2, func)
          IN  /\ out' = IF r.ret = "Ok" THEN [kind |-> "table", mgr |-> r.mgr] ELSE NoOut
              /\ call' = [op |-> "arith", func |-> func, ret |-> r.ret]
    /\ UNCHANGED <<t1, t2, workers>>

Combine ==
    /\ call.op = "none"
    /\ \E T \in AskTypes, func \in CombFuncs, debug_assertions \in BOOLEAN,
          order \in Orders(t1) :
          LET r == combine(t1, t2, T, func, debug_assertions, order)
          IN  /\ out' = IF r.ret = "Ok" THEN [kind |-> "table", mgr |-> r.mgr] ELSE NoOut
              /\ call' = [op |-> "combine", T |-> T, func |-> func, ret |-> r.ret]
    /\ UNCHANGED <<t1, t2, workers>>

NextArith == Arith \/ Combine

SpecArith == InitArith /\ [][NextArith]_vars

(***************************************************************************)
(* SpecSeries: one Column, built by a constructor and then put through any *)
(* sequence of Column operations; out holds the Column the program holds   *)
(* after the last operation.  Both builds are inputs of the operations     *)
(* whose checks are debug assertions.  Values are capped by MaxVal.        *)
(***************************************************************************)
MaxVal == 2

SeriesTypes == {"f64", "i64", "other"}

RowLabels == {"x", "y"}

SeqsUpTo(S, n) == UNION {[1..k -> S] : k \in 0..n}

SeriesArrays == SeqsUpTo({1, 2}, MaxLen)

SeriesCtors ==
    {Series_from(ty, a) : ty \in SeriesTypes, a \in SeriesArrays}
    \cup {Series_from_pairs(ty, l, a) :
             ty \in SeriesTypes,
             l \in {x \in SeqsUpTo(RowLabels, MaxLen) : Len(x) = MaxLen},
             a \in {x \in SeriesArrays : Len(x) = MaxLen}}

Small(c) == \A i \in 1..Len(c.array) : c.array[i] <= MaxVal

Holds(c) == [kind |-> "series", series |-> c]

InitSeries ==
    /\ t1 = BlockManager_default
    /\ t2 = BlockManager_default
    /\ out \in {Holds(c) : c \in SeriesCtors}
    /\ call = NoCall
    /\ workers = NoWorkers

SeriesApply ==
    /\ call.ret # "panic"
    /\ Small(out.series)
    /\ \E func \in Funcs :
          /\ out' = Holds(Series_apply(out.series, func))
          /\ call' = [op |-> "apply", ret |-> "Ok"]
    /\ UNCHANGED <<t1, t2, workers>>

SeriesMask ==
    /\ call.ret # "panic"
    /\ \E value \in {1}, cond \in Conds :
          /\ out' = Holds(Series_mask(out.series, value, cond))
          /\ call' = [op |-> "mask", ret |-> "Ok"]
    /\ UNCHANGED <<t1, t2, workers>>

SeriesTransform ==
    /\ call.ret # "panic"
    /\ Small(out.series)
    /\ \E func \in Funcs, M \in SeriesTypes :
          /\ out' = Holds(Series_transform(out.series, func, M))
          /\ call' = [op |-> "transform", ret |-> "Ok"]
    /\ UNCHANGED <<t1, t2, workers>>

SeriesCombine ==
    /\ call.ret # "panic"
    /\ Small(out.series)
    /\ \E other \in SeriesCtors, func \in CombFuncs, debug_assertions \in BOOLEAN :
          /\ other.ty = out.series.ty
          /\ LET r == Series_combine(out.series, other, func, debug_assertions)
             IN  /\ out' = IF r.ret = "Ok" THEN Holds(r.series) ELSE out
                 /\ call' = [op |-> "combine", other_len |-> Len(other.array),
                             ret |-> r.ret]
    /\ UNCHANGED <<t1, t2, workers>>

SeriesSetName ==
    /\ call.ret # "panic"
    /\ \E name \in {"a"} :
          /\ out' = Holds(set_name(out.series, name))
          /\ call' = [op |-> "set_name", ret |-> "Ok"]
    /\ UNCHANGED <<t1, t2, workers>>

SeriesSetIndex ==
    /\ call.ret # "panic"
    /\ \E index \in SeqsUpTo(RowLabels, MaxLen), debug_assertions \in BOOLEAN :
          LET r == set_index(out.series, index, debug_assertions)
          IN  /\ out' = Holds(r.series)
              /\ call' = [op |-> "set_index", ret |-> r.ret]
    /\ UNCHANGED <<t1, t2, workers>>

SeriesSetDtype ==
    /\ call.ret # "panic"
    /\ \E dtype \in {"F64", "I64", "OBJECT"} :
          /\ out' = Holds(set_dtype(out.series, dtype))
          /\ call' = [op |-> "set_dtype", ret |-> "Ok"]
    /\ UNCHANGED <<t1, t2, workers>>

DropLabels == {<<>>, <<"x">>, <<"0">>, <<"x", "y">>}

SeriesDrop ==
    /\ call.ret # "panic"
    /\ \E labels \in DropLabels, debug_assertions \in BOOLEAN :
          LET r == Series_drop(out.series, labels, debug_assertions)
          IN  /\ out' = Holds(r.series)
              /\ call' = [op |-> "drop", labels |-> labels, ret |-> r.ret]
    /\ UNCHANGED <<t1, t2, workers>>

SeriesEquals ==
    /\ call.ret # "panic"
    /\ \E other \in SeriesCtors, debug_assertions \in BOOLEAN :
          /\ other.ty = out.series.ty
          /\ call' = [op |-> "equals", other |-> other.array,
                      ret |-> Series_equals(out.series, other, debug_assertions)]
    /\ UNCHANGED <<t1, t2, out, workers>>

NextSeries ==
    \/ SeriesApply \/ SeriesMask \/ SeriesTransform \/ SeriesCombine
    \/ SeriesSetName \/ SeriesSetIndex \/ SeriesSetDtype
    \/ SeriesDrop \/ SeriesEquals

SpecSeries == InitSeries /\ [][NextSeries]_vars

(***************************************************************************)
(* SpecPar: par_apply_map on one table.  Block::par_apply hands the        *)
(* columns of the Group to a pool of workers (into_par_iter().map(..)):    *)
(* any idle worker takes any column not yet taken and applies func to it;  *)
(* collect() puts every result at the position of its column and returns   *)
(* once all of them are there.  BlockManager::par_apply_map runs one such  *)
(* section for every entry of keys that yields the Group of T, and extends *)
(* the result by the collected Group after each.  workers holds the        *)
(* section in progress: the columns not yet taken (todo), the column each  *)
(* worker is mapping (busy, 0 when idle), the results so far and the order *)
(* in which they were completed (done).                                    *)
(***************************************************************************)
NumWorkers == 2

Workers == 1..NumWorkers

ParTypes == {"f64", "i64"}

ParCols ==
    {set_name(Series_from(ty, Iota(MaxLen)), nm) :
        ty \in ParTypes, nm \in ArithNames}

ParTables == TablesOver(ParCols, MaxCols)

TagOrders(m) == {[i \in 1..Len(o) |-> m.values[o[i]]] : o \in KeyOrders(m)}

(* The first position from k on at which keys yields the Group of T. *)
RECURSIVE NextMatch(_, _, _, _)
NextMatch(self, T, keys, k) ==
    IF k > Len(keys) THEN k
    ELSE IF keys[k] \in DOMAIN self.blocks /\ self.blocks[keys[k]].ty = T THEN k
    ELSE NextMatch(self, T, keys, k + 1)

(* collect() in the order in which the results were completed. *)
par_collect_completion_order(results, done, n) ==
    [i \in 1..n |-> results[done[i]]]

par_collect(results, done, n) ==
    [i \in 1..n |-> results[i]]

Section(T, func, keys, k, block_mgr, n) ==
    [pc |-> "running", T |-> T, func |-> func, keys |-> keys, k |-> k,
     block_mgr |-> block_mgr, todo |-> 1..n,
     busy |-> [w \in Workers |-> 0], results |-> EmptyMap, done |-> <<>>]

InitPar ==
    /\ t1 \in ParTables
    /\ t2 = BlockManager_default
    /\ out = NoOut
    /\ call = NoCall
    /\ workers = NoWorkers

ParStart ==
    /\ call.op = "none"
    /\ workers.pc = "idle"
    /\ \E T \in ParTypes, func \in Funcs, keys \in TagOrders(t1) :
          LET k == NextMatch(t1, T, keys, 1)
          IN  IF k > Len(keys)
              THEN /\ out' = [kind |-> "table", mgr |-> BlockManager_default]
                   /\ call' = [op |-> "par_apply_map", T |-> T, func |-> func,
                               ret |-> "Ok"]
                   /\ workers' = [pc |-> "idle", done |-> <<>>]
              ELSE /\ workers' = Section(T, func, keys, k, BlockManager_default,
                                         Len(t1.blocks[keys[k]].data))
                   /\ UNCHANGED <<out, call>>
    /\ UNCHANGED <<t1, t2>>

ParTake ==
    /\ workers.pc = "running"
    /\ \E w \in Workers, i \in workers.todo :
          /\ workers.busy[w] = 0
          /\ workers' = [workers EXCEPT !.busy[w] = i, !.todo = @ \ {i}]
    /\ UNCHANGED <<t1, t2, out, call>>

ParFinish ==
    /\ workers.pc = "running"
    /\ \E w \in Workers :
          /\ workers.busy[w] # 0
          /\ LET i == workers.busy[w]
                 f == t1.blocks[workers.keys[workers.k]].data[i]
             IN  workers' = [workers EXCEPT
                                !.busy[w] = 0,
                                !.results = MapInsert(@, i, Series_apply(f, workers.func)),
                                !.done = Append(@, i)]
    /\ UNCHANGED <<t1, t2, out, call>>

ParCollect ==
    /\ workers.pc = "running"
    /\ workers.todo = {}
    /\ \A w \in Workers : workers.busy[w] = 0
    /\ LET src   == t1.blocks[workers.keys[workers.k]]
           block == Block_from(par_collect(workers.results, workers.done,
                                           Len(src.data)), src.ty)
           r     == extend_from_block(workers.block_mgr, block)
           k     == NextMatch(t1, workers.T, workers.keys, workers.k + 1)
       IN  IF r.ret # "Ok"
           THEN /\ call' = [op |-> "par_apply_map", T |-> workers.T,
                            func |-> workers.func, ret |-> "panic"]
                /\ out' = NoOut
                /\ workers' = [pc |-> "idle", done |-> workers.done]
           ELSE IF k > Len(workers.keys)
           THEN /\ call' = [op |-> "par_apply_map", T |-> workers.T,
                            func |-> workers.func, ret |-> "Ok"]
                /\ out' = [kind |-> "table", mgr |-> r.mgr]
                /\ workers' = [pc |-> "idle", done |-> workers.done]
           ELSE /\ workers' = Section(workers.T, workers.func, workers.keys, k,
                                      r.mgr, Len(t1.blocks[workers.keys[k]].data))
                /\ UNCHANGED <<out, call>>
    /\ UNCHANGED <<t1, t2>>

NextPar == ParStart \/ ParTake \/ ParFinish \/ ParCollect

SpecPar == InitPar /\ [][NextPar]_vars

(***************************************************************************)
(* SpecRender: full rendering (Debug and Display) of a table of up to      *)
(* MaxRows rows, built by add_series calls.                                *)
(***************************************************************************)
MaxRows == 11

RenderCols ==
    {set_name(Series_from(ty, Iota(n)), nm) :
        ty \in ParTypes, n \in 0..MaxRows, nm \in ArithNames}

RenderTables == TablesOver(RenderCols, MaxCols)

InitRender ==
    /\ t1 \in RenderTables
    /\ t2 = BlockManager_default
    /\ out = NoOut
    /\ call = NoCall
    /\ workers = NoWorkers

Render ==
    /\ call.op = "none"
    /\ \E debug \in BOOLEAN :
          LET r == real_formatter(t1, debug)
          IN  /\ out' = IF r.ret = "Ok" THEN [kind |-> "rows", rows |-> r.rows] ELSE NoOut
              /\ call' = [op |-> "render", debug |-> debug, ret |-> r.ret]
    /\ UNCHANGED <<t1, t2, workers>>

NextRender == Render

SpecRender == InitRender /\ [][NextRender]_vars

(***************************************************************************)
(* SpecCsv: a delimited-text Reader that holds the raw columns of a file   *)
(* (all of one length, one header each) is converted to a DataFrame.       *)
(***************************************************************************)
RawValues ==
    {<<"1">>, <<"-", "2">>, <<"1", ".", "5">>, <<"t", "r", "u", "e">>,
     <<"f", "a", "l", "s", "e">>, <<"x">>}

CsvHeaders == <<"a", "b", "c", "d">>

CsvData ==
    UNION {[1..c -> [1..n -> RawValues]] : c \in 1..Min(MaxCols, 2), n \in 1..MaxLen}

InitCsv ==
    /\ t1 = BlockManager_default
    /\ t2 = BlockManager_default
    /\ out = NoOut
    /\ call = NoCall
    /\ workers = NoWorkers

ToDataframe ==
    /\ call.op = "none"
    /\ \E data \in CsvData :
          LET r == to_dataframe(data, SubSeq(CsvHeaders, 1, Len(data)))
          IN  /\ out' = IF r.ret = "Ok" THEN [kind |-> "table", mgr |-> r.mgr] ELSE NoOut
              /\ call' = [op |-> "to_dataframe", data |-> data, ret |-> r.ret]
    /\ UNCHANGED <<t1, t2, workers>>

NextCsv == ToDataframe

SpecCsv == InitCsv /\ [][NextCsv]_vars

(***************************************************************************)
(* SpecNd: a DataFrame is built from a two-dimensional array and converted *)
(* back with to_ndarray.                                                   *)
(***************************************************************************)
NdArrays ==
    UNION {[1..r -> [1..c -> {1, 2}]] : r \in 1..MaxLen, c \in 1..MaxCols}

InitNd ==
    /\ t1 = BlockManager_default
    /\ t2 = BlockManager_default
    /\ out = NoOut
    /\ call = NoCall
    /\ workers = NoWorkers

FromArray2 ==
    /\ call.op = "none"
    /\ \E ty \in ParTypes, array \in NdArrays :
          LET r == DataFrame_from_array2(ty, array)
          IN  /\ t1' = r.mgr
              /\ call' = [op |-> "from_array2", ty |-> ty, array |-> array,
                          ret |-> r.ret]
    /\ UNCHANGED <<t2, out, workers>>

ToNdarray ==
    /\ call.ret # "panic"
    /\ call.op = "from_array2"
    /\ \E T \in ParTypes :
          LET r == to_ndarray(t1, T)
          IN  /\ out' = IF r.ret = "Some" THEN [kind |-> "array", array |-> r.array]
                                          ELSE NoOut
              /\ call' = [op |-> "to_ndarray", T |-> T, ret |-> r.ret]
    /\ UNCHANGED <<t1, t2, workers>>

NextNd == FromArray2 \/ ToNdarray

SpecNd == InitNd /\ [][NextNd]_vars

(***************************************************************************)
(* Reading a Store: the column stored under a name.                        *)
(***************************************************************************)
Stored(m, n) ==
    /\ Contains(m.names, n)
    /\ n \in DOMAIN m.values
    /\ m.values[n] \in DOMAIN m.blocks
    /\ Contains(m.blocks[m.values[n]].names, n)

Column(m, n) ==
    LET b == m.blocks[m.values[n]] IN b.data[Position(b.names, n)]

LengthCompatible(m, series) == Len(m.names) = 0 \/ Len(series.array) = m.len

(***************************************************************************)
(* C1: after any sequence of add_series calls on an initially empty Store, *)
(* every column held in any Group has the Store's len as its length, and   *)
(* that len is the length of the first column that was stored (the first   *)
(* name of the presentation order).                                        *)
(***************************************************************************)
C1_LengthInvariant ==
    /\ \A g \in DOMAIN t1.blocks :
          \A i \in 1..Len(t1.blocks[g].data) :
             Len(t1.blocks[g].data[i].array) = t1.len
    /\ Len(t1.names) > 0 =>
          /\ Stored(t1, t1.names[1])
          /\ t1.len = Len(Column(t1, t1.names[1]).array)

C1_Witness ==
    /\ call.op = "add_series"
    /\ call.ret = "Ok"
    /\ Len(t1.names) >= 2
    /\ Cardinality(DOMAIN t1.blocks) >= 2
    /\ t1.len = MaxLen

(***************************************************************************)
(* C5, as claimed: a length-compatible add_series call whose name is       *)
(* already a column name, or whose preserve_names is false, stores the     *)
(* column under the decimal string of the column count; if that string is  *)
(* already a column name the call returns ColumnNameErrors and stores      *)
(* nothing.                                                                *)
(***************************************************************************)
C5_Renumbers(supportedOnly) ==
    (/\ call'.op = "add_series"
     /\ LengthCompatible(t1, call'.series)
     /\ Contains(t1.names, call'.series.name) \/ ~call'.preserve_names)
    => LET n == format(Len(t1.names))
       IN  IF Contains(t1.names, n)
           THEN call'.ret = "ColumnNameErrors" /\ t1' = t1
           ELSE /\ call'.ret = "Ok"
                /\ (supportedOnly => call'.series.dtype # "OBJECT")
                   => /\ t1'.names = Append(t1.names, n)
                      /\ Stored(t1', n)
                      /\ Column(t1', n) = set_name(call'.series, n)

C6_NamesUnique ==
    \A i, j \in 1..Len(t1.names) : i # j => t1.names[i] # t1.names[j]

C6_Witness ==
    /\ call.op = "add_series"
    /\ call.ret = "ColumnNameErrors"
    /\ Len(t1.names) >= 1

(***************************************************************************)
(* C7: add_series with a column whose length differs from the len of a     *)
(* Store that holds at least one column returns DifferentLength and leaves *)
(* the Store (Groups, name index, presentation order, len, row labels) as  *)
(* it was.                                                                 *)
(***************************************************************************)
C7_DifferentLengthRejected ==
    [][(/\ call'.op = "add_series"
        /\ Len(t1.names) > 0
        /\ Len(call'.series.array) # t1.len)
       => (call'.ret = "DifferentLength" /\ t1' = t1)]_vars

C7_Witness ==
    /\ call.op = "add_series"
    /\ call.ret = "DifferentLength"
    /\ Len(t1.names) > 0
    /\ Len(call.series.array) # t1.len

(***************************************************************************)
(* C2, as claimed: get::<T>(n) returns the column named n when n is stored *)
(* under T's tag, and None in every other case, without a panic.           *)
(***************************************************************************)
TypedColumn(m, T, n) == Stored(m, n) /\ m.values[n] = get_type(T)

C2_GetSomeOrNone ==
    call.op = "get" =>
        IF TypedColumn(t1, call.T, call.col)
        THEN /\ call.ret = "Some"
             /\ out = [kind |-> "series", series |-> Column(t1, call.col)]
        ELSE call.ret = "None"

(***************************************************************************)
(* C8: when key names a T-typed column of t and new_name is not a column   *)
(* name of t, assign returns a table holding every column of t unchanged   *)
(* plus a column new_name whose i-th value is f(t[key][i]); t is not       *)
(* modified.                                                               *)
(***************************************************************************)
Mapped(func, array) == [i \in 1..Len(array) |-> Call(func, array[i])]

C8_AssignAddsColumn ==
    [][(/\ call'.op = "assign"
        /\ TypedColumn(t1, call'.T, call'.key)
        /\ ~Contains(t1.names, call'.name))
       => /\ call'.ret = "Ok"
          /\ t1' = t1
          /\ out'.kind = "table"
          /\ out'.mgr.names = Append(t1.names, call'.name)
          /\ DOMAIN out'.mgr.values = DOMAIN t1.values \cup {call'.name}
          /\ \A i \in 1..Len(t1.names) :
                /\ Stored(out'.mgr, t1.names[i])
                /\ Column(out'.mgr, t1.names[i]) = Column(t1, t1.names[i])
          /\ Stored(out'.mgr, call'.name)
          /\ Column(out'.mgr, call'.name).name = call'.name
          /\ Column(out'.mgr, call'.name).ty = call'.T
          /\ Column(out'.mgr, call'.name).array
                = Mapped(call'.func, Column(t1, call'.key).array)]_vars

C8_Witness ==
    /\ call.op = "assign"
    /\ call.ret = "Ok"
    /\ Len(t1.names) >= 2
    /\ Cardinality(DOMAIN t1.blocks) >= 2
    /\ ~Contains(t1.names, call.name)
    /\ out.kind = "table"
    /\ Len(out.mgr.names) = Len(t1.names) + 1

(***************************************************************************)
(* C9, as claimed: when key names a T-typed column of t and new_name is    *)
(* not a column name of t, then after assign_inplace returns Ok, t holds   *)
(* its previous columns unchanged plus a column new_name whose i-th value  *)
(* is f applied to the i-th value of column key.                           *)
(***************************************************************************)
C9_AssignInplaceAddsColumn ==
    [][(/\ call'.op = "assign_inplace"
        /\ TypedColumn(t1, call'.T, call'.key)
        /\ ~Contains(t1.names, call'.name)
        /\ call'.ret = "Ok")
       => /\ t1'.names = Append(t1.names, call'.name)
          /\ \A i \in 1..Len(t1.names) :
                /\ Stored(t1', t1.names[i])
                /\ Column(t1', t1.names[i]) = Column(t1, t1.names[i])
          /\ Stored(t1', call'.name)
          /\ Column(t1', call'.name).array
                = Mapped(call'.func, Column(t1, call'.key).array)]_vars

(***************************************************************************)
(* C10, as claimed: assign and assign_inplace with a key that does not     *)
(* name a T-typed column return KeyError as a value, never panic, and      *)
(* assign_inplace leaves the table unchanged.                              *)
(***************************************************************************)
C10_KeyErrorReturned ==
    [][(/\ call'.op \in {"assign", "assign_inplace"}
        /\ ~TypedColumn(t1, call'.T, call'.key))
       => (call'.ret = "KeyError" /\ t1' = t1)]_vars

(***************************************************************************)
(* C3, as claimed: t1 op t2 completes, and the column names of the result  *)
(* are exactly the names stored under the same numeric tag in both t1 and  *)
(* t2.                                                                     *)
(***************************************************************************)
SharedNumeric(a, b) ==
    {n \in DOMAIN a.values \cap DOMAIN b.values :
        /\ Stored(a, n)
        /\ Stored(b, n)
        /\ a.values[n] = b.values[n]
        /\ a.values[n] \in NumericTags}

NameSet(m) == {m.names[i] : i \in 1..Len(m.names)}

C3_ArithColumnSet ==
    call.op = "arith" =>
        /\ call.ret = "Ok"
        /\ NameSet(out.mgr) = SharedNumeric(t1, t2)

(***************************************************************************)
(* C4, as claimed: whenever t1 op t2 completes, for every shared numeric   *)
(* column name n the result column n holds t1[n][i] op t2[n][i] at every   *)
(* row i.                                                                  *)
(***************************************************************************)
C4_ArithElementwise ==
    (call.op = "arith" /\ call.ret = "Ok") =>
        \A n \in SharedNumeric(t1, t2) :
            /\ Stored(out.mgr, n)
            /\ LET x == Column(t1, n)
                   y == Column(t2, n)
               IN  Column(out.mgr, n).array
                     = [i \in 1..Min(Len(x.array), Len(y.array)) |->
                            Elem(call.func, x.ty, x.array[i], y.array[i])]

(***************************************************************************)
(* C11: clone() of a table yields a table with the same column names in    *)
(* the same presentation order, and each column of the clone equals the    *)
(* original column of that name in name, tag, index labels and values      *)
(* (every column a Store holds has a supported tag).                       *)
(***************************************************************************)
C11_CloneFidelity ==
    call.op = "clone" =>
        /\ call.ret = "Ok"
        /\ out.kind = "table"
        /\ out.mgr.names = t1.names
        /\ \A i \in 1..Len(t1.names) :
              LET n == t1.names[i]
              IN  /\ Stored(t1, n)
                  /\ Stored(out.mgr, n)
                  /\ out.mgr.values[n] = t1.values[n]
                  /\ Column(out.mgr, n) = Column(t1, n)

(* A clone of a two-Group table whose Groups were visited in an order that *)
(* is not the presentation order of the names.                             *)
C11_Witness ==
    /\ call.op = "clone"
    /\ call.ret = "Ok"
    /\ Len(t1.names) = 2
    /\ Len(call.order) = 2
    /\ call.order[1] # t1.values[t1.names[1]]

(***************************************************************************)
(* C12, as claimed: apply_map::<T>(f) returns a table with exactly one     *)
(* column for each T-typed column of the source, under the same name and   *)
(* in the same relative order, whose i-th value is f of the source         *)
(* column's i-th value; columns of other types are absent.                 *)
(***************************************************************************)
TypedNames(m, T) ==
    SelectSeq(m.names, LAMBDA n : TypedColumn(m, T, n))

C12_ApplyMapColumns ==
    call.op = "apply_map" =>
        /\ call.ret = "Ok"
        /\ out.mgr.names = TypedNames(t1, call.T)
        /\ \A i \in 1..Len(out.mgr.names) :
              LET n == out.mgr.names[i]
              IN  /\ Stored(out.mgr, n)
                  /\ Column(out.mgr, n).array
                        = Mapped(call.func, Column(t1, n).array)

(***************************************************************************)
(* C13, as claimed: t.combine::<T>(other, f) completes for every pair of   *)
(* tables and returns a table with one column for each name stored as a    *)
(* T-typed column in both t and other, whose i-th value is                 *)
(* f(t[n][i], other[n][i]); other columns are skipped without error or     *)
(* panic.                                                                  *)
(***************************************************************************)
SharedTyped(a, b, T) ==
    SelectSeq(a.names, LAMBDA n : TypedColumn(a, T, n) /\ TypedColumn(b, T, n))

C13_CombineCompletes ==
    call.op = "combine" =>
        /\ call.ret = "Ok"
        /\ Len(out.mgr.names) = Len(SharedTyped(t1, t2, call.T))
        /\ \A k \in 1..Len(out.mgr.names) :
              LET n == SharedTyped(t1, t2, call.T)[k]
                  c == Column(out.mgr, out.mgr.names[k])
              IN  c.array = [i \in 1..Len(c.array) |->
                                Call2(call.func, Column(t1, n).array[i],
                                      Column(t2, n).array[i])]

(***************************************************************************)
(* C14, as claimed: the column returned by Series::combine carries self's  *)
(* name (and so every column in the result of DataFrame::combine carries   *)
(* the name of the column of self it was computed from).                   *)
(***************************************************************************)
C14_CombineKeepsName ==
    [][(call'.op = "combine" /\ call'.ret = "Ok")
       => out'.series.name = out.series.name]_vars

(***************************************************************************)
(* C15, as claimed: Series::combine(other, f) with self.len() different    *)
(* from other.len() always panics and never returns a column.              *)
(***************************************************************************)
C15_CombineUnequalLengthFails ==
    [][(call'.op = "combine" /\ call'.other_len # Len(out.series.array))
       => (call'.ret = "panic" /\ out' = out)]_vars

(***************************************************************************)
(* C17, as claimed: after construction and any sequence of public Column   *)
(* operations, the dtype of a non-empty Column is the tag that get_type    *)
(* assigns to its element type.                                            *)
(***************************************************************************)
C17_DtypeIsTagOfType ==
    (out.kind = "series" /\ Len(out.series.array) > 0)
        => out.series.dtype = get_type(out.series.ty)

(***************************************************************************)
(* C18, as claimed: the columns returned by c.apply(f), c.mask(v, p) and   *)
(* c.transform(g) have the same name and the same index label sequence as  *)
(* c.                                                                      *)
(***************************************************************************)
C18_KeepsNameAndIndex ==
    [][call'.op \in {"apply", "mask", "transform"}
       => /\ out'.series.name = out.series.name
          /\ out'.series.index = out.series.index]_vars

(***************************************************************************)
(* C16, as claimed: for every table with r rows and every n > r, head(n)   *)
(* and tail(n) each panic, and neither renders a row outside positions     *)
(* 0..r-1.                                                                 *)
(***************************************************************************)
C16_HeadTailBounds ==
    (call.op \in {"head", "tail"} /\ call.n > t1.len)
        => /\ call.ret = "panic"
           /\ out = NoOut

(***************************************************************************)
(* C20, as claimed: for a table holding a T-typed column named c and       *)
(* having a row labelled r, at::<T>((c, r)) returns Some of the value of   *)
(* column c at row r; it returns None when c is not a column name of the   *)
(* table or the table holds no T-typed column.                             *)
(***************************************************************************)
HoldsType(m, T) == \E g \in DOMAIN m.blocks : m.blocks[g].ty = T

C20_AtValue ==
    call.op = "at" =>
        /\ (TypedColumn(t1, call.T, call.col) /\ Contains(t1.index, call.row)
              /\ Contains(Column(t1, call.col).index, call.row))
           => LET c == Column(t1, call.col)
              IN  /\ call.ret = "Some"
                  /\ out = [kind |-> "value",
                            value |-> c.array[Position(c.index, call.row)]]
        /\ (~Contains(t1.names, call.col) \/ ~HoldsType(t1, call.T))
           => call.ret = "None"

(***************************************************************************)
(* C19: par_apply_map::<T>(f) returns the same table as apply_map::<T>(f)  *)
(* - the same columns in the same order with the same values - under every *)
(* assignment of columns to workers and every interleaving of the workers, *)
(* and the result is assembled (a collected Group is merged into the       *)
(* result, the call returns) only in a step taken when every column has    *)
(* been taken and every worker has finished.                               *)
(***************************************************************************)
AllFinished ==
    workers.pc = "running" =>
        /\ workers.todo = {}
        /\ \A w \in Workers : workers.busy[w] = 0

Assembled(w) == IF w.pc = "running" THEN w.block_mgr ELSE BlockManager_default

C19_ParEqualsSequential ==
    [][/\ (call'.op = "par_apply_map" /\ call.op = "none")
           => \A keys \in KeyOrders(t1) :
                 LET r == apply_map(t1, call'.T, call'.func, keys)
                 IN  /\ call'.ret = r.ret
                     /\ r.ret = "Ok" => out' = [kind |-> "table", mgr |-> r.mgr]
       /\ (out' # out \/ (workers'.pc = "running"
                            /\ Assembled(workers') # Assembled(workers)))
           => AllFinished]_vars

(* A call that has returned a table of two columns of which the second was *)
(* completed before the first.                                             *)
C19_Witness ==
    /\ call.op = "par_apply_map"
    /\ call.ret = "Ok"
    /\ Len(out.mgr.names) >= 2
    /\ Len(workers.done) >= 2
    /\ workers.done[1] = 2

(***************************************************************************)
(* C21, as claimed: full rendering of a table prints every row once with   *)
(* no ellipsis row when the table has at most 10 rows, and prints exactly  *)
(* the first 5 rows, one ellipsis row and the last 5 rows when it has more *)
(* than 10 rows.                                                           *)
(***************************************************************************)
RowsShown(rows) == [i \in 1..Len(rows) |-> rows[i].at]

C21_RenderTruncation ==
    call.op = "render" =>
        /\ call.ret = "Ok"
        /\ IF t1.len <= 10
           THEN RowsShown(out.rows) = [i \in 1..t1.len |-> i - 1]
           ELSE RowsShown(out.rows)
                  = [i \in 1..11 |-> IF i <= 5 THEN i - 1
                                     ELSE IF i = 6 THEN -1
                                     ELSE t1.len - 11 + i]

(***************************************************************************)
(* C22, as claimed: a text column ingested without a type hint gets the    *)
(* first of the tags integer, float, boolean, string for which every one   *)
(* of the first min(10, length) raw values parses as that type; so a       *)
(* column whose sampled values all parse as booleans, but not all as       *)
(* integers or floats, is stored with the Bool tag.                        *)
(***************************************************************************)
InferredTag(j) ==
    LET sample == SubSeq(j, 1, Min(10, Len(j)))
    IN  IF \A i \in 1..Len(sample) : parse_i32(sample[i]).ok THEN "I32"
        ELSE IF \A i \in 1..Len(sample) : parse_f64(sample[i]).ok THEN "F64"
        ELSE IF \A i \in 1..Len(sample) : parse_bool(sample[i]).ok THEN "BOOL"
        ELSE "STRING"

C22_TagInference ==
    call.op = "to_dataframe" =>
        /\ call.ret = "Ok"
        /\ \A i \in 1..Len(call.data) :
              /\ Stored(out.mgr, CsvHeaders[i])
              /\ out.mgr.values[CsvHeaders[i]] = InferredTag(call.data[i])

(***************************************************************************)
(* C23, as claimed: for every array A with r rows and c columns,           *)
(* DataFrame::from(A).to_ndarray::<T>() returns Some(B) where B has r rows *)
(* and c columns and B[i][j] = A[i][j] for all i and j.                    *)
(***************************************************************************)
C23_NdarrayRoundTrip ==
    [][(call.op = "from_array2" /\ call'.op = "to_ndarray" /\ call'.T = call.ty)
       => /\ call'.ret = "Some"
          /\ out' = [kind |-> "array", array |-> call.array]]_vars

(***************************************************************************)
(* C24, as claimed: for every column c (its index labels may contain       *)
(* duplicates, and it has one label per entry) and every label list L,     *)
(* c.drop(L) returns a column made of exactly the entries of c whose label *)
(* is not in L, in their original order, each entry keeping its own value  *)
(* and its own label.                                                      *)
(***************************************************************************)
Kept(c, L) == SelectSeq([i \in 1..Len(c.index) |-> i],
                        LAMBDA i : ~Contains(L, c.index[i]))

C24_DropKeepsEntries ==
    [][(call'.op = "drop" /\ Len(out.series.index) = Len(out.series.array))
       => LET c == out.series
              K == Kept(c, call'.labels)
          IN  /\ call'.ret = "Ok"
              /\ out'.series.array = [i \in 1..Len(K) |-> c.array[K[i]]]
              /\ out'.series.index = [i \in 1..Len(K) |-> c.index[K[i]]]]_vars

(***************************************************************************)
(* C25, as claimed: for two columns a and b of equal length, a.equals(b)   *)
(* returns true if and only if a[i] = b[i] at every position i; in         *)
(* particular a.equals(a) is true.                                         *)
(***************************************************************************)
C25_EqualsIsPointwise ==
    [][(call'.op = "equals" /\ Len(call'.other) = Len(out.series.array))
       => call'.ret = IF call'.other = out.series.array THEN "true" ELSE "false"]_vars

(***************************************************************************)
(* C29, as claimed: after construction by any constructor and any sequence *)
(* of Column operations, a Column's index label sequence has exactly as    *)
(* many entries as its backing array.                                      *)
(***************************************************************************)
C29_IndexLengthIsArrayLength ==
    out.kind = "series" => Len(out.series.index) = Len(out.series.array)

(***************************************************************************)
(* C26: after any sequence of add_series calls (columns of any tag         *)
(* including OBJECT, successful or rejected), the presentation-order list  *)
(* and the name-to-tag map contain exactly the same set of names, and each *)
(* such name is the name of exactly one stored column, which is held in    *)
(* the Group of the tag that the map records for that name.                *)
(***************************************************************************)
Holders(m, n) ==
    {<<g, i>> \in UNION {{g} \X (1..Len(m.blocks[g].data)) : g \in DOMAIN m.blocks} :
        m.blocks[g].data[i].name = n \/ m.blocks[g].names[i] = n}

C26_NamesAndTagsAgree ==
    call.ret # "panic" =>
        /\ NameSet(t1) = DOMAIN t1.values
        /\ \A n \in NameSet(t1) :
              /\ Cardinality({i \in 1..Len(t1.names) : t1.names[i] = n}) = 1
              /\ Cardinality(Holders(t1, n)) = 1
              /\ \A h \in Holders(t1, n) :
                    /\ h[1] = t1.values[n]
                    /\ t1.blocks[h[1]].data[h[2]].name = n
                    /\ t1.blocks[h[1]].names[h[2]] = n
                    /\ t1.blocks[h[1]].data[h[2]].dtype = t1.values[n]
        /\ \A g \in DOMAIN t1.blocks :
              /\ Len(t1.blocks[g].names) = Len(t1.blocks[g].data)
              /\ \A i \in 1..Len(t1.blocks[g].data) :
                    t1.blocks[g].data[i].name \in NameSet(t1)

(* A Store that holds a column and has just been handed a column of the   *)
(* OBJECT tag under the name of the column it holds.                       *)
C26_Witness ==
    /\ call.op = "add_series"
    /\ call.ret = "Ok"
    /\ call.series.dtype = "OBJECT"
    /\ Contains(t1.names, call.series.name)
    /\ Len(t1.names) = 1

(***************************************************************************)
(* C27, as claimed: whenever a column is stored into a Store that holds no *)
(* columns at that moment, whatever insertion attempts preceded it, the    *)
(* Store's len becomes that column's length and the Store's row-label      *)
(* sequence becomes exactly that column's index labels.                    *)
(***************************************************************************)
C27_FirstColumnSetsLenAndIndex ==
    [][(/\ DOMAIN t1.blocks = {}
        /\ call'.op = "add_series"
        /\ call'.ret = "Ok"
        /\ DOMAIN t1'.blocks # {})
       => /\ t1'.len = Len(call'.series.array)
          /\ t1'.index = call'.series.index]_vars

(***************************************************************************)
(* SpecLabels: one Store grown from empty by add_series calls whose        *)
(* columns carry index labels of the caller's choosing, and cloned.        *)
(***************************************************************************)
LabelledCols ==
    {set_name(Series_from_pairs(ty, l, Iota(Len(l))), nm) :
        ty \in StoreTypes,
        l \in {x \in SeqsUpTo(RowLabels, MaxLen) : Len(x) >= 1},
        nm \in StoreNames}

AddLabelled ==
    /\ call.ret # "panic"
    /\ Len(t1.names) < MaxCols
    /\ Len(t1.index) <= MaxLen
    /\ \E series \in LabelledCols, preserve_names \in BOOLEAN :
          LET r == add_series(t1, series, preserve_names)
          IN  /\ t1' = r.mgr
              /\ call' = [op |-> "add_series", series |-> series,
                          preserve_names |-> preserve_names, ret |-> r.ret]
    /\ UNCHANGED <<t2, out, workers>>

NextLabels == AddLabelled \/ Clone

SpecLabels == Init /\ [][NextLabels]_vars

(***************************************************************************)
(* C30, as claimed: clone() preserves the Store's shared row-label         *)
(* sequence and len: for every table, including one whose columns carry    *)
(* different index labels and are spread over several Groups, the clone's  *)
(* row labels and len equal the original's, whatever order the Groups are  *)
(* visited in during the clone.                                            *)
(***************************************************************************)
C30_ClonePreservesIndexAndLen ==
    (call.op = "clone" /\ call.ret = "Ok") =>
        /\ out.mgr.index = t1.index
        /\ out.mgr.len = t1.len

(***************************************************************************)
(* SpecShow: one Store grown from empty by add_series calls, replaced by   *)
(* its own clone (df = df.clone()) and rendered by head.                   *)
(***************************************************************************)
MaxShown == 3

ShowAdd ==
    /\ call.ret # "panic"
    /\ Len(t1.names) < MaxShown
    /\ Len(t1.index) <= MaxLen
    /\ \E series \in StoreCols, preserve_names \in BOOLEAN :
          LET r == add_series(t1, series, preserve_names)
          IN  /\ t1' = r.mgr
              /\ call' = [op |-> "add_series", series |-> series,
                          preserve_names |-> preserve_names, ret |-> r.ret]
    /\ UNCHANGED <<t2, out, workers>>

ShowClone ==
    /\ call.ret # "panic"
    /\ \E order \in Orders(t1) :
          LET r == clone(t1, order)
          IN  /\ t1' = IF r.ret = "Ok" THEN r.mgr ELSE t1
              /\ out' = IF r.ret = "Ok" THEN [kind |-> "table", mgr |-> r.mgr] ELSE NoOut
              /\ call' = [op |-> "clone", order |-> order, ret |-> r.ret]
    /\ UNCHANGED <<t2, workers>>

NextShow == ShowAdd \/ ShowClone \/ DoHead

SpecShow == Init /\ [][NextShow]_vars

(***************************************************************************)
(* C28: in every Store reachable by any sequence of add_series calls and   *)
(* clones, for each name at position k of the presentation order with tag  *)
(* g, the column of that name sits in Group g at the position equal to the *)
(* number of names of tag g that precede position k; hence rendering shows *)
(* under each column title, in every row, the value of the column that has *)
(* that name.                                                              *)
(***************************************************************************)
Preceding(m, k) ==
    Cardinality({i \in 1..(k - 1) :
        /\ m.names[i] \in DOMAIN m.values
        /\ m.values[m.names[i]] = m.values[m.names[k]]})

InPlace(m) ==
    \A k \in 1..Len(m.names) :
        /\ m.names[k] \in DOMAIN m.values
        /\ m.values[m.names[k]] \in DOMAIN m.blocks
        /\ LET block == m.blocks[m.values[m.names[k]]]
               p     == Preceding(m, k)
           IN  /\ p < Len(block.data)
               /\ block.data[p + 1].name = m.names[k]
               /\ block.names[p + 1] = m.names[k]

====
